---- MODULE Spec2Model ----
(***************************************************************************)
(* State-machine model of the theme-1 landing page scripts:                *)
(*   - video-testimonials.js : infinite-loop slider with drag (Vt...)      *)
(*   - theme-1.js            : circular testimonial carousel (Car...)      *)
(*   - light-rays.js         : visibility-gated WebGL ray renderer (Lr...) *)
(*   - theme-1.js            : page initialisation and in-place language   *)
(*                             switch (Pg...), main video modal (Md...)    *)
(* The components share no state, so each has its own specification        *)
(* (SpecVT, SpecCar, SpecLR, SpecPage, SpecModal) over the same variable   *)
(* list; a specification leaves the other components' variables at their   *)
(* construction values.                                                    *)
(***************************************************************************)
EXTENDS Integers, Sequences, FiniteSets, TLC

VARIABLES
  \* ---- video-testimonials.js (module-level state, lines 21-33) ----
  vtPc,             \* position of init(): "start" | "retry" | "setup" | "ready"
  initTimers,       \* pending setTimeout(init, 100) timers
  domReady,         \* environment: track, slider and first card exist
  nCards,           \* environment: number of cards in the markup
  isRTL,            \* document.documentElement.dir === 'rtl'
  innerWidth,       \* window.innerWidth
  totalSlides,
  cards,            \* [...track.children] after cloneCards: <<index, isClone>>
  cardWidth,        \* cards[0].offsetWidth as laid out by the last setPerView
  dots,             \* pagination.children: sequence of "active" flags
  current,
  transform,        \* track.style.transform translateX value (px)
  rehome,           \* pending checkLoop timeouts, oldest first: the cursor each will set
  autoplayTimer,    \* 0 = null, else the interval handle
  vtIntervals,      \* live setInterval(next, delay) handles
  vtElapsed,        \* time the live autoplay interval has run since armed or last fired (ms)
  isDragging,
  startX,
  currentTranslate,
  prevTranslate,
  resizeTimer,      \* window.resizeTimer is pending
  dragMoved,        \* history: a move was handled since the last press
  dragDx,           \* history: net pointer displacement of the gesture since its press
  nextRun,          \* history: k if all calls so far were k settled next() calls, else -1
  \* ---- theme-1.js, initCircularTestimonials (closure state, lines 481-603) ----
  carInit,          \* initCircularTestimonials has run
  carN,             \* environment: number of .testimonial-circle-item in the markup
  order,            \* rotation order: items <<index of the original, pass>> (pass 0 = original)
  placed,           \* the order positionItems last wrote transforms for (<<>> = never)
  carRect,          \* environment: width of circle.getBoundingClientRect() (px)
  transforms,       \* translate(x, y) of the item at each order index, in 1/Fixed px
  autoRotateTimer,  \* 0 = null, else the interval handle
  carIntervals,     \* live auto-rotate intervals
  hidden,           \* document.hidden
  carHover,         \* the wrapper's last mouse event was a mouseenter
  totalImages,      \* images.length
  loadedImages,
  imgWaiting,       \* images with load/error listeners that have not fired yet
  carElapsed,       \* time since the live auto-rotate interval was armed or last fired (ms)
  carCut,           \* history: how long the interval cleared by the last startAutoRotate had run
  carLast,          \* history: the handler that ran last
  \* ---- light-rays.js, one LightRays instance (fields, lines 64-90) ----
  container,        \* the instance was given a container element
  followMouse,      \* options.followMouse
  extAvailable,     \* environment: the WEBGL_lose_context extension exists
  observed,         \* what the IntersectionObserver last reported: "none" | "in" | "out"
  isVisible,
  gl,               \* 0 = null, else the rendering context (numbered by Active period)
  program,          \* 0 = null, else the program linked in that context
  uniforms,         \* the uniform-location table is filled
  animationId,      \* 0 = null, else the handle of the last requested frame
  cleanupFunctions, \* sequence of the listeners the callbacks will remove
  mouse,            \* raw pointer position, in tenths of the container
  lrPeriod,         \* number of initializeWebGL() runs so far
  lrFrames,         \* pending animation frames: <<handle, context of the loop closure>>
  lrListeners,      \* window listeners registered: <<"mousemove", 0>>, <<"resize", context>>
  lrLive,           \* contexts acquired and not lost
  lrRect,           \* the container's size (getBoundingClientRect)
  canvasSize,       \* width/height of the canvas in the container
  uResolution,      \* value of the u_resolution uniform
  lrDrawn,          \* history: contexts whose loop closure has drawn a frame
  raysOrigin,       \* options.raysOrigin
  uRayPos,          \* value of the u_rayPos uniform
  uRayDir,          \* value of the u_rayDir uniform
  lrPushed,         \* history: every callback pushed on cleanupFunctions, in order
  lrRan,            \* history: every cleanup callback that has run, in order
  lrOutcome,        \* history: where the last initializeWebGL() returned
  lrLast,           \* history: the callback that ran last
  \* ---- theme-1.js, init / loadLanguageFile (lines 7-101, 684-703) and the scripts' start ----
  pgLoaded,         \* the scripts have run their start code on this document
  pgGen,            \* generation of the .theme-1 section in the document (0 = as served)
  pgInside,         \* environment: the components whose markup lies inside the .theme-1 section
  pgFetch,          \* a language fetch is in flight
  pgReinit,         \* number of pending setTimeout(init, 100) callbacks
  pgSwitches,       \* number of language selections made so far
  pgClosures,       \* one record per initCircularTestimonials() closure: the generation
                    \* of the markup it is bound to, whether its interval is live, and
                    \* the images it still waits for
  pgHidden,         \* document.hidden
  pgHover,          \* the pointer is over the carousel wrapper in the document
  pgLastTick,       \* history: the closure whose interval ticked last (0 = none)
  pgVtGen,          \* generation of the markup the video slider is bound to (-1 = none)
  pgLrGen,          \* generation of the markup the LightRays instances are bound to
  \* ---- theme-1.js, initVideoPlayer (closure state, lines 249-340) ----
  mdUrls,           \* environment: data-video-url of each trigger ("" = attribute missing)
  mdActive,         \* videoModal.classList.contains('active')
  mdSrc,            \* modalVideo.src
  mdPlaying,        \* the video is playing
  mdLastFocused,    \* lastFocusedElement (NoElement = null)
  mdFocus,          \* document.activeElement
  mdOpener,         \* history: the trigger of the last openModal that showed the modal
  mdLast            \* history: the handler that ran last

vtVars == <<vtPc, initTimers, domReady, nCards, isRTL, innerWidth, totalSlides, cards, cardWidth,
            dots, current, transform, rehome, autoplayTimer, vtIntervals, vtElapsed,
            isDragging, startX, currentTranslate, prevTranslate, resizeTimer,
            dragMoved, dragDx, nextRun>>

vtConf == <<nCards, isRTL>>
vtDrag == <<isDragging, startX, currentTranslate, prevTranslate, dragMoved, dragDx>>
vtAuto == <<autoplayTimer, vtIntervals, vtElapsed>>
vtLayout == <<innerWidth, cardWidth, resizeTimer>>

carVars == <<carInit, carN, order, placed, carRect, transforms, autoRotateTimer, carIntervals, hidden,
             carHover, totalImages, loadedImages, imgWaiting, carElapsed, carCut, carLast>>

lrVars == <<container, followMouse, extAvailable, observed, isVisible, gl, program,
            uniforms, animationId, cleanupFunctions, mouse, lrPeriod, lrFrames,
            lrListeners, lrLive, lrRect, canvasSize, uResolution, lrDrawn,
            raysOrigin, uRayPos, uRayDir, lrPushed, lrRan, lrOutcome, lrLast>>

pgVars == <<pgLoaded, pgGen, pgInside, pgFetch, pgReinit, pgSwitches, pgClosures,
            pgHidden, pgHover, pgLastTick, pgVtGen, pgLrGen>>

mdVars == <<mdUrls, mdActive, mdSrc, mdPlaying, mdLastFocused, mdFocus, mdOpener,
            mdLast>>

vars == <<vtVars, carVars, lrVars, pgVars, mdVars>>

----------------------------------------------------------------------------
\* Bounds of the model
MaxN == 2          \* largest number of original cards
MaxPending == 2    \* largest number of pending re-homing timeouts explored
MaxItems == 5      \* largest number of original carousel items
MaxImages == 2     \* largest number of images inside the ring
MaxPeriods == 3    \* largest number of Active periods of the ray renderer
MaxSwitches == 2   \* largest number of language selections
MaxTriggers == 2   \* largest number of play triggers wired to the modal

\* Program constants
Delay == 3000          \* config.delay
Transition == 500      \* config.transition
ResizeDebounce == 150  \* the delay of handleResize's timer
MinVisible == 10       \* the padding floor of the rotation order
AUTO_ROTATE_DELAY == 3500

\* fixed-point unit of the ring coordinates and of the sine and cosine
Fixed == 1000

\* the steps in which time is observed to pass between carousel events
Quantum == AUTO_ROTATE_DELAY \div 2

\* Environment: the window widths tried, the slider's offsetWidth at each, the
\* x of a press and the xs of the moves that follow it
WinWidths == {1100, 1200}
SliderWidth(w) == IF w < 1200 THEN 1098 ELSE 1152
PressXs == {200}
PointerXs == {83, 200, 317}
MousePoints == {2, 5, 8}
RectSizes == {300, 600}
RectHeight(w) == (2 * w) \div 3
\* the carousel circle's getBoundingClientRect() widths tried, its height at each,
\* and the offset size of an item
CircleWidths == {300, 600}
CircleHeight(w) == (2 * w) \div 3
ItemWidth == 120
ItemHeight == 90
NamedOrigins == {"top-left", "top-right", "left", "right", "bottom-left", "bottom-center",
                 "bottom-right"}
OriginNames == NamedOrigins \cup {"top-center", "center"}

Abs(x) == IF x < 0 THEN -x ELSE x
Max(a, b) == IF a >= b THEN a ELSE b

\* JavaScript % : the sign follows the dividend
JsRem(a, b) == IF a >= 0 THEN a % b ELSE -((-a) % b)

\* smallest free timer handle (handles are positive, 0 stands for null)
NewHandle(S) == CHOOSE h \in 1..(Cardinality(S) + 1) : h \notin S

----------------------------------------------------------------------------
\* video-testimonials.js

\* gap chosen from window.innerWidth (setPerView 149-154, update 287-292)
Gap(w) == IF w <= 480 THEN 0 ELSE IF w <= 640 THEN 12 ELSE 24

PerView(w) ==
  IF w < 640 THEN 1
  ELSE IF w < 768 THEN 1
  ELSE IF w < 1024 THEN 2
  ELSE IF w < 1400 THEN 3
  ELSE 4

\* offsetWidth of a card after setPerView has styled it at window width w
setPerView(w) ==
  LET sliderWidth == SliderWidth(w)
      totalGaps == PerView(w) * Gap(w)
      cw == (sliderWidth - totalGaps) \div PerView(w)
  IN  IF w <= 480 THEN sliderWidth              \* width: 100%
      ELSE IF w <= 640 THEN Max(cw, sliderWidth) \* min-width: 100%
      ELSE Max(cw, 280)                          \* min-width: 280px

\* track.children after cloneCards(): clones appended in order, then the
\* reversed originals inserted one by one before the first child
\* the reversed originals put before the track as one block
InsertFront_asBlock(revs, trk) == revs \o trk

RECURSIVE InsertFront(_, _)
InsertFront(revs, trk) ==
  IF revs = <<>> THEN trk
  ELSE InsertFront(Tail(revs), <<Head(revs)>> \o trk)

cloneCards(n) ==
  LET originals == [i \in 1..n |-> <<i - 1, FALSE>>]
      appended == originals \o [i \in 1..n |-> <<i - 1, TRUE>>]
      reversed == [i \in 1..n |-> <<n - i, TRUE>>]
  IN  InsertFront(reversed, appended)

getRealIndex_noWrap(index) == JsRem(index - totalSlides, totalSlides)

getRealIndex(index) ==
  LET realIdx == JsRem(index - totalSlides, totalSlides)
  IN  IF realIdx < 0 THEN realIdx + totalSlides ELSE realIdx

\* classList.toggle('active', i === realIndex) over the existing dots
updatePagination(cur, ds) ==
  [i \in 1..Len(ds) |-> (i - 1) = getRealIndex(cur)]

\* createPagination(): one fresh dot per original card, then updatePagination
createPagination(cur) ==
  updatePagination(cur, [i \in 1..totalSlides |-> FALSE])

\* getTranslateX(): m41 of the track's computed transform, read with the track
\* at rest on the value last written
getTranslateX == transform

\* translateX value update() writes for cursor cur and card width cw
Value(cur, cw) ==
  LET offset == (cw + Gap(innerWidth)) * cur
  IN  IF isRTL THEN offset ELSE -offset

\* update(animate) with the cursor, card width and dots of the calling handler
update(cur, animate, cw, ds) ==
  IF cards = <<>>
    THEN /\ transform' = transform
         /\ dots' = ds
    ELSE /\ transform' = Value(cur, cw)
         /\ dots' = updatePagination(cur, ds)

\* checkLoop(): the timeout queue after the check
checkLoop_wrongHome(cur, q) ==
  LET maxIndex == Len(cards) - totalSlides
  IN  IF cur >= maxIndex THEN Append(q, totalSlides + 1)
      ELSE IF cur < totalSlides THEN Append(q, maxIndex - 1)
      ELSE q

checkLoop_offByOne(cur, q) ==
  LET maxIndex == Len(cards) - totalSlides
  IN  IF cur > maxIndex THEN Append(q, totalSlides)
      ELSE IF cur < totalSlides THEN Append(q, maxIndex - 1)
      ELSE q

checkLoop(cur, q) ==
  LET maxIndex == Len(cards) - totalSlides
  IN  IF cur >= maxIndex THEN Append(q, totalSlides)
      ELSE IF cur < totalSlides THEN Append(q, maxIndex - 1)
      ELSE q

\* stopAutoplay / resetAutoplay on the interval table
stopAutoplay_keepInterval ==
  /\ autoplayTimer' = 0
  /\ vtIntervals' = vtIntervals
  /\ vtElapsed' = vtElapsed

stopAutoplay ==
  /\ autoplayTimer' = 0
  /\ vtIntervals' = vtIntervals \ {autoplayTimer}
  /\ vtElapsed' = 0

resetAutoplay_noClear ==
  LET h == NewHandle(vtIntervals)
  IN  /\ autoplayTimer' = h
      /\ vtIntervals' = vtIntervals \cup {h}
      /\ vtElapsed' = 0

resetAutoplay ==
  LET cleared == vtIntervals \ {autoplayTimer}
      h == NewHandle(cleared)
  IN  /\ autoplayTimer' = h
      /\ vtIntervals' = cleared \cup {h}
      /\ vtElapsed' = 0

\* next() / prev(): current +/- 1, update(true), checkLoop()
Step(d) ==
  /\ Len(rehome) < MaxPending
  /\ current' = current + d
  /\ update(current + d, TRUE, cardWidth, dots)
  /\ rehome' = checkLoop(current + d, rehome)

next == Step(1)
prev == Step(-1)

\* history of the run "next() called k times, each settled before the following"
RunAfterNext ==
  nextRun' = IF nextRun >= 0 /\ nextRun < 2 * totalSlides /\ rehome = <<>> /\ ~resizeTimer
             THEN nextRun + 1 ELSE -1

\* init() run by a retry timer that stays armed
VtInitPage_keepsTimer ==
  /\ vtPc \in {"start", "retry"}
  /\ initTimers < 3
  /\ IF ~domReady
       THEN /\ vtPc' = "retry"
            /\ initTimers' = initTimers + 1
            /\ UNCHANGED totalSlides
       ELSE /\ vtPc' = "setup"
            /\ initTimers' = initTimers
            /\ totalSlides' = nCards
  /\ UNCHANGED <<domReady, vtConf, vtLayout, vtDrag, vtAuto, cards, dots, current,
                 transform, rehome, nextRun>>
  /\ UNCHANGED <<carVars, lrVars, pgVars, mdVars>>

\* init() (lines 36-93), called from the page start or by a retry timer that
\* fires: without the nodes it arms a retry timer, with them the deferred setup
VtInitPage ==
  /\ vtPc = "start" \/ (vtPc = "retry" /\ initTimers > 0)
  /\ LET left == IF vtPc = "retry" THEN initTimers - 1 ELSE initTimers
     IN  IF ~domReady
           THEN /\ vtPc' = "retry"
                /\ initTimers' = left + 1
                /\ UNCHANGED totalSlides
           ELSE /\ vtPc' = "setup"
                /\ initTimers' = left
                /\ totalSlides' = nCards
  /\ UNCHANGED <<domReady, vtConf, vtLayout, vtDrag, vtAuto, cards, dots, current,
                 transform, rehome, nextRun>>
  /\ UNCHANGED <<carVars, lrVars, pgVars, mdVars>>

VtDomAppears ==
  /\ ~domReady
  /\ domReady' = TRUE
  /\ UNCHANGED <<vtPc, initTimers, totalSlides, vtConf, vtLayout, vtDrag, vtAuto, cards, dots,
                 current, transform, rehome, nextRun>>
  /\ UNCHANGED <<carVars, lrVars, pgVars, mdVars>>

\* the deferred setup of init(), lines 77-90
VtSetup ==
  /\ vtPc = "setup"
  /\ vtPc' = "ready"
  /\ cards' = cloneCards(totalSlides)
  /\ cardWidth' = setPerView(innerWidth)
  /\ current' = totalSlides
  /\ transform' = Value(totalSlides, setPerView(innerWidth))
  /\ dots' = updatePagination(totalSlides, createPagination(current))
  /\ autoplayTimer' = NewHandle(vtIntervals)
  /\ vtIntervals' = vtIntervals \cup {NewHandle(vtIntervals)}
  /\ vtElapsed' = 0
  /\ nextRun' = 0
  /\ UNCHANGED <<initTimers, domReady, totalSlides, vtConf, innerWidth, resizeTimer, vtDrag, rehome>>
  /\ UNCHANGED <<carVars, lrVars, pgVars, mdVars>>

\* a resize event reaches handleResize: the debounce timer is (re)armed
VtResize ==
  /\ vtPc \in {"setup", "ready"}
  /\ \E w \in WinWidths : innerWidth' = w
  /\ resizeTimer' = TRUE
  /\ nextRun' = -1
  /\ UNCHANGED <<vtPc, initTimers, domReady, totalSlides, vtConf, cardWidth, vtDrag, vtAuto, cards,
                 dots, current, transform, rehome>>
  /\ UNCHANGED <<carVars, lrVars, pgVars, mdVars>>

\* the debounced callback of handleResize
VtResizeFire ==
  /\ resizeTimer
  /\ resizeTimer' = FALSE
  /\ cardWidth' = IF cards = <<>> THEN cardWidth ELSE setPerView(innerWidth)
  /\ update(current, FALSE, cardWidth', createPagination(current))
  /\ UNCHANGED <<vtPc, initTimers, domReady, totalSlides, vtConf, innerWidth, vtDrag, vtAuto, cards,
                 current, rehome, nextRun>>
  /\ UNCHANGED <<carVars, lrVars, pgVars, mdVars>>

\* One pointer drives the page: while it is pressed on the track (isDragging)
\* no click on a button or dot and no hover change of the slider is delivered;
\* leaving the track ends the drag (track mouseleave) before the slider is left.
\* nextBtn.onclick: next(); resetAutoplay()
VtNextClick ==
  /\ vtPc = "ready"
  /\ ~isDragging
  /\ next
  /\ resetAutoplay
  /\ RunAfterNext
  /\ UNCHANGED <<vtPc, initTimers, domReady, totalSlides, vtConf, vtLayout, vtDrag, cards>>
  /\ UNCHANGED <<carVars, lrVars, pgVars, mdVars>>

\* prevBtn.onclick: prev(); resetAutoplay()
VtPrevClick ==
  /\ vtPc = "ready"
  /\ ~isDragging
  /\ prev
  /\ resetAutoplay
  /\ nextRun' = -1
  /\ UNCHANGED <<vtPc, initTimers, domReady, totalSlides, vtConf, vtLayout, vtDrag, cards>>
  /\ UNCHANGED <<carVars, lrVars, pgVars, mdVars>>

\* goToSlide(index): current = index + totalSlides; update(true)
goToSlide(index) ==
  /\ current' = index + totalSlides
  /\ update(index + totalSlides, TRUE, cardWidth, dots)

\* dot.onclick: goToSlide(i); resetAutoplay()
VtDotClick ==
  /\ vtPc = "ready"
  /\ ~isDragging
  /\ \E i \in 0..(Len(dots) - 1) : goToSlide(i)
  /\ resetAutoplay
  /\ nextRun' = -1
  /\ UNCHANGED <<vtPc, initTimers, domReady, totalSlides, vtConf, vtLayout, vtDrag, cards, rehome>>
  /\ UNCHANGED <<carVars, lrVars, pgVars, mdVars>>

\* the delay of the live autoplay interval runs out; by then every shorter
\* timer that was pending (re-homing, resize debounce) has fired
VtDelayPasses ==
  /\ autoplayTimer \in vtIntervals
  /\ vtElapsed < Delay
  /\ (Delay > Transition /\ Delay > ResizeDebounce) => (rehome = <<>> /\ ~resizeTimer)
  /\ vtElapsed' = Delay
  /\ UNCHANGED <<vtPc, initTimers, domReady, totalSlides, vtConf, vtLayout, vtDrag,
                 autoplayTimer, vtIntervals, cards, dots, current, transform, rehome,
                 nextRun>>
  /\ UNCHANGED <<carVars, lrVars, pgVars, mdVars>>

\* setInterval(next, config.delay) fires.  Every handler that schedules a
\* re-homing timeout also restarts the interval, and Delay > Transition, so
\* a tick never comes due while a re-homing timeout is pending.
VtAutoplayTick ==
  /\ autoplayTimer \in vtIntervals
  /\ vtElapsed >= Delay
  /\ Delay > Transition => rehome = <<>>
  /\ next
  /\ vtElapsed' = 0
  /\ RunAfterNext
  /\ UNCHANGED <<vtPc, initTimers, domReady, totalSlides, vtConf, vtLayout, vtDrag,
                 autoplayTimer, vtIntervals, cards>>
  /\ UNCHANGED <<carVars, lrVars, pgVars, mdVars>>

\* the oldest checkLoop timeout fires: current = target; update(false)
VtRehomeFire ==
  /\ rehome # <<>>
  /\ current' = Head(rehome)
  /\ rehome' = Tail(rehome)
  /\ update(Head(rehome), FALSE, cardWidth, dots)
  /\ UNCHANGED <<vtPc, initTimers, domReady, totalSlides, vtConf, vtLayout, vtDrag, vtAuto, cards,
                 nextRun>>
  /\ UNCHANGED <<carVars, lrVars, pgVars, mdVars>>

\* slider mouseenter: stopAutoplay
VtMouseEnter ==
  /\ vtPc = "ready"
  /\ ~isDragging
  /\ stopAutoplay
  /\ UNCHANGED <<vtPc, initTimers, domReady, totalSlides, vtConf, vtLayout, vtDrag, cards, dots,
                 current, transform, rehome, nextRun>>
  /\ UNCHANGED <<carVars, lrVars, pgVars, mdVars>>

\* slider mouseleave: resetAutoplay
VtMouseLeave ==
  /\ vtPc = "ready"
  /\ ~isDragging
  /\ resetAutoplay
  /\ UNCHANGED <<vtPc, initTimers, domReady, totalSlides, vtConf, vtLayout, vtDrag, cards, dots,
                 current, transform, rehome, nextRun>>
  /\ UNCHANGED <<carVars, lrVars, pgVars, mdVars>>

\* startDrag(e): mousedown / touchstart on the track
VtStartDrag ==
  /\ vtPc = "ready"
  /\ ~isDragging
  /\ isDragging' = TRUE
  /\ \E x \in PressXs : startX' = x
  /\ dragDx' = 0
  /\ prevTranslate' = getTranslateX
  /\ stopAutoplay
  /\ dragMoved' = FALSE
  /\ nextRun' = -1
  /\ UNCHANGED <<vtPc, initTimers, domReady, totalSlides, vtConf, vtLayout, cards, dots, current,
                 transform, rehome, currentTranslate>>
  /\ UNCHANGED <<carVars, lrVars, pgVars, mdVars>>

\* drag(e): mousemove / touchmove on the track
VtDrag ==
  /\ vtPc = "ready"
  /\ \E x \in PointerXs :
       IF ~isDragging
         THEN UNCHANGED <<currentTranslate, transform, dragMoved, dragDx>>
         ELSE /\ currentTranslate' = prevTranslate + (x - startX)
              /\ transform' = currentTranslate'
              /\ dragMoved' = TRUE
              /\ dragDx' = x - startX
  /\ UNCHANGED <<vtPc, initTimers, domReady, totalSlides, vtConf, vtLayout, vtAuto, cards, dots,
                 current, rehome, isDragging, startX, prevTranslate, nextRun>>
  /\ UNCHANGED <<carVars, lrVars, pgVars, mdVars>>

\* the step endDrag() commits: +1 next(), -1 prev(), 0 snap back
DragStep_halfCard(moved, cw, rtl) ==
  IF 2 * Abs(moved) > cw
    THEN IF moved < 0 THEN (IF rtl THEN -1 ELSE 1)
                      ELSE (IF rtl THEN 1 ELSE -1)
    ELSE 0

DragStep(moved, cw, rtl) ==
  IF 3 * Abs(moved) > cw
    THEN IF moved < 0 THEN (IF rtl THEN -1 ELSE 1)
                      ELSE (IF rtl THEN 1 ELSE -1)
    ELSE 0

\* endDrag() without its isDragging guard
VtEndDrag_noGuard ==
  /\ vtPc = "ready"
  /\ IF FALSE
       THEN UNCHANGED <<isDragging, current, transform, dots, rehome, vtAuto, startX,
                        prevTranslate>>
       ELSE LET moved == currentTranslate - prevTranslate
                d == DragStep(moved, cardWidth, isRTL)
            IN  /\ isDragging' = FALSE
                /\ IF d # 0
                     THEN Step(d)
                     ELSE /\ update(current, TRUE, cardWidth, dots)
                          /\ UNCHANGED <<current, rehome>>
                /\ resetAutoplay
                /\ startX' = 0
                /\ prevTranslate' = 0
  /\ UNCHANGED <<vtPc, initTimers, domReady, totalSlides, vtConf, vtLayout, cards,
                 currentTranslate, dragMoved, dragDx, nextRun>>
  /\ UNCHANGED <<carVars, lrVars, pgVars, mdVars>>

\* endDrag(): mouseup / mouseleave / touchend on the track.
\* startX and prevTranslate keep their values in the script, but startDrag
\* overwrites both before drag or endDrag read them again, so the values left
\* by a finished gesture are never observed and are held at 0 here;
\* currentTranslate is read before it is rewritten and keeps its value.
VtEndDrag ==
  /\ vtPc = "ready"
  /\ IF ~isDragging
       THEN UNCHANGED <<isDragging, current, transform, dots, rehome, vtAuto, startX,
                        prevTranslate>>
       ELSE LET moved == currentTranslate - prevTranslate
                d == DragStep(moved, cardWidth, isRTL)
            IN  /\ isDragging' = FALSE
                /\ IF d # 0
                     THEN Step(d)
                     ELSE /\ update(current, TRUE, cardWidth, dots)
                          /\ UNCHANGED <<current, rehome>>
                /\ resetAutoplay
                /\ startX' = 0
                /\ prevTranslate' = 0
  /\ UNCHANGED <<vtPc, initTimers, domReady, totalSlides, vtConf, vtLayout, cards,
                 currentTranslate, dragMoved, dragDx, nextRun>>
  /\ UNCHANGED <<carVars, lrVars, pgVars, mdVars>>


----------------------------------------------------------------------------
\* theme-1.js: circular testimonials carousel

\* one pass of the inner for loop (lines 494-499), from base index i
RECURSIVE PadInner_fullPass(_, _, _, _)
PadInner_fullPass(items, base, i, pass) ==
  IF i < Len(base)
    THEN PadInner_fullPass(Append(items, <<base[i + 1][1], pass>>), base, i + 1, pass)
    ELSE items

RECURSIVE PadInner(_, _, _, _)
PadInner(items, base, i, pass) ==
  IF i < Len(base) /\ Len(items) < MinVisible
    THEN PadInner(Append(items, <<base[i + 1][1], pass>>), base, i + 1, pass)
    ELSE items

\* the while loop (lines 493-500)
RECURSIVE PadOuter(_, _, _)
PadOuter(items, base, pass) ==
  IF Len(items) < MinVisible
    THEN PadOuter(PadInner(items, base, 0, pass), base, pass + 1)
    ELSE items

\* items after the padding: the rotation order of line 502
PadItems(n) ==
  LET baseItems == [i \in 1..n |-> <<i - 1, 0>>]
  IN  PadOuter(baseItems, baseItems, 1)

\* Math.sin of p/q of a turn in 1/Fixed units (Bhaskara's rational
\* approximation of the sine on a half turn, exact at the quarter turns)
Sin(p, q) ==
  LET t == (2 * p) % (2 * q)                \* in half turns of 1/q
      a == IF t <= q THEN t ELSE t - q
      half == (Fixed * 16 * a * (q - a)) \div (5 * q * q - 4 * a * (q - a))
  IN  IF t <= q THEN half ELSE -half

\* Math.cos of p/q of a turn in 1/Fixed units
Cos(p, q) == Sin(4 * p + q, 4 * q)

\* radius of the ring for a container of width w, in 1/Fixed px (lines 508-509)
Radius(w) ==
  LET baseSize == IF w <= CircleHeight(w) THEN w ELSE CircleHeight(w)
  IN  Max(210 * Fixed, (baseSize * 55 * Fixed) \div 100)

\* translate(x, y) of order index i of L: angle = angleStep * i - PI / 2
ItemAt_fromRight(i, L, w) ==
  LET centerX == (w * Fixed) \div 2
      centerY == (CircleHeight(w) * Fixed) \div 2
  IN  <<centerX + (Radius(w) * Cos(i, L)) \div Fixed - (ItemWidth * Fixed) \div 2,
        centerY + (Radius(w) * Sin(i, L)) \div Fixed - (ItemHeight * Fixed) \div 2>>

ItemAt(i, L, w) ==
  LET centerX == (w * Fixed) \div 2
      centerY == (CircleHeight(w) * Fixed) \div 2
  IN  <<centerX + (Radius(w) * Cos(4 * i - L, 4 * L)) \div Fixed - (ItemWidth * Fixed) \div 2,
        centerY + (Radius(w) * Sin(4 * i - L, 4 * L)) \div Fixed - (ItemHeight * Fixed) \div 2>>

\* positionItems(): the transforms written for the order (lines 505-522)
positionItems(ord, w) == [k \in 1..Len(ord) |-> ItemAt(k - 1, Len(ord), w)]

rotate_dropLast(direction, ord) ==
  IF ord = <<>> THEN ord
  ELSE IF direction = "next"
    THEN SubSeq(ord, 1, Len(ord) - 1)
    ELSE Tail(ord) \o <<Head(ord)>>

rotate_prevAsNext(direction, ord) ==
  IF ord = <<>> THEN ord
  ELSE <<ord[Len(ord)]>> \o SubSeq(ord, 1, Len(ord) - 1)

\* rotate(direction) on the order (lines 524-531)
rotate(direction, ord) ==
  IF ord = <<>> THEN ord
  ELSE IF direction = "next"
    THEN <<ord[Len(ord)]>> \o SubSeq(ord, 1, Len(ord) - 1)
    ELSE Tail(ord) \o <<Head(ord)>>

tick_noHiddenCheck(hid, ord) == rotate("next", ord)

\* the interval callback of startAutoRotate (lines 537-541)
tick(hid, ord) == IF hid THEN ord ELSE rotate("next", ord)

startAutoRotate_keepPhase ==
  LET cleared == carIntervals \ {autoRotateTimer}
      h == NewHandle(cleared)
  IN  /\ autoRotateTimer' = h
      /\ carIntervals' = cleared \cup {h}
      /\ carCut' = carElapsed
      /\ carElapsed' = carElapsed

startAutoRotate ==
  LET cleared == carIntervals \ {autoRotateTimer}
      h == NewHandle(cleared)
  IN  /\ autoRotateTimer' = h
      /\ carIntervals' = cleared \cup {h}
      /\ carCut' = carElapsed
      /\ carElapsed' = 0

stopAutoRotate ==
  /\ autoRotateTimer' = 0
  /\ carIntervals' = carIntervals \ {autoRotateTimer}
  /\ carElapsed' = 0
  /\ UNCHANGED carCut

\* initCircularTestimonials(): c of the images are already complete
CarInit ==
  /\ ~carInit
  /\ carInit' = TRUE
  /\ order' = PadItems(carN)
  /\ placed' = order'
  /\ transforms' = positionItems(order', carRect)
  /\ \E c \in 0..totalImages :
       /\ loadedImages' = c
       /\ imgWaiting' = totalImages - c
       /\ IF c >= totalImages
            THEN startAutoRotate
            ELSE UNCHANGED <<autoRotateTimer, carIntervals, carElapsed, carCut>>
  /\ carLast' = "init"
  /\ UNCHANGED <<carRect, carN, hidden, carHover, totalImages>>
  /\ UNCHANGED <<vtVars, lrVars, pgVars, mdVars>>

CarPrevClick ==
  /\ carInit /\ ~hidden
  /\ order' = rotate("prev", order)
  /\ placed' = order'
  /\ transforms' = positionItems(order', carRect)
  /\ startAutoRotate
  /\ carLast' = "prev"
  /\ UNCHANGED <<carRect, carInit, carN, hidden, carHover, totalImages, loadedImages, imgWaiting>>
  /\ UNCHANGED <<vtVars, lrVars, pgVars, mdVars>>

CarNextClick ==
  /\ carInit /\ ~hidden
  /\ order' = rotate("next", order)
  /\ placed' = order'
  /\ transforms' = positionItems(order', carRect)
  /\ startAutoRotate
  /\ carLast' = "next"
  /\ UNCHANGED <<carRect, carInit, carN, hidden, carHover, totalImages, loadedImages, imgWaiting>>
  /\ UNCHANGED <<vtVars, lrVars, pgVars, mdVars>>

CarMouseEnter ==
  /\ carInit /\ ~hidden /\ ~carHover
  /\ carHover' = TRUE
  /\ stopAutoRotate
  /\ carLast' = "enter"
  /\ UNCHANGED <<carRect, carInit, carN, order, placed, transforms, hidden, totalImages, loadedImages,
                 imgWaiting>>
  /\ UNCHANGED <<vtVars, lrVars, pgVars, mdVars>>

CarMouseLeave ==
  /\ carInit /\ ~hidden /\ carHover
  /\ carHover' = FALSE
  /\ startAutoRotate
  /\ carLast' = "leave"
  /\ UNCHANGED <<carRect, carInit, carN, order, placed, transforms, hidden, totalImages, loadedImages,
                 imgWaiting>>
  /\ UNCHANGED <<vtVars, lrVars, pgVars, mdVars>>

CarVisibilityChange_stopOnly ==
  /\ hidden' = ~hidden
  /\ IF carInit
       THEN /\ IF hidden'
                 THEN stopAutoRotate
                 ELSE UNCHANGED <<autoRotateTimer, carIntervals, carElapsed, carCut>>
            /\ carLast' = "visibility"
       ELSE UNCHANGED <<autoRotateTimer, carIntervals, carElapsed, carCut, carLast>>
  /\ UNCHANGED <<carRect, carInit, carN, order, placed, transforms, carHover, totalImages, loadedImages,
                 imgWaiting>>
  /\ UNCHANGED <<vtVars, lrVars, pgVars, mdVars>>

\* visibilitychange: the document becomes hidden or visible
CarVisibilityChange ==
  /\ hidden' = ~hidden
  /\ IF carInit
       THEN /\ IF hidden' THEN stopAutoRotate ELSE startAutoRotate
            /\ carLast' = "visibility"
       ELSE UNCHANGED <<autoRotateTimer, carIntervals, carElapsed, carCut, carLast>>
  /\ UNCHANGED <<carRect, carInit, carN, order, placed, transforms, carHover, totalImages, loadedImages,
                 imgWaiting>>
  /\ UNCHANGED <<vtVars, lrVars, pgVars, mdVars>>

\* window resize: positionItems
CarResize ==
  /\ carInit
  /\ \E w \in CircleWidths : carRect' = w
  /\ placed' = order
  /\ transforms' = positionItems(order, carRect')
  /\ carLast' = "resize"
  /\ UNCHANGED <<carInit, carN, order, autoRotateTimer, carIntervals, hidden, carHover,
                 totalImages, loadedImages, imgWaiting, carElapsed, carCut>>
  /\ UNCHANGED <<vtVars, lrVars, pgVars, mdVars>>

\* onImageLoad, from the load or the error event of a waiting image
CarImageSettled_noGate ==
  /\ carInit
  /\ imgWaiting > 0
  /\ imgWaiting' = imgWaiting - 1
  /\ loadedImages' = loadedImages + 1
  /\ IF loadedImages' >= 1
       THEN /\ placed' = order
            /\ transforms' = positionItems(order, carRect)
            /\ startAutoRotate
       ELSE UNCHANGED <<placed, transforms, autoRotateTimer, carIntervals, carElapsed, carCut>>
  /\ carLast' = "image"
  /\ UNCHANGED <<carRect, carInit, carN, order, hidden, carHover, totalImages>>
  /\ UNCHANGED <<vtVars, lrVars, pgVars, mdVars>>

CarImageSettled ==
  /\ carInit
  /\ imgWaiting > 0
  /\ imgWaiting' = imgWaiting - 1
  /\ loadedImages' = loadedImages + 1
  /\ IF loadedImages' >= totalImages
       THEN /\ placed' = order
            /\ transforms' = positionItems(order, carRect)
            /\ startAutoRotate
       ELSE UNCHANGED <<placed, transforms, autoRotateTimer, carIntervals, carElapsed, carCut>>
  /\ carLast' = "image"
  /\ UNCHANGED <<carRect, carInit, carN, order, hidden, carHover, totalImages>>
  /\ UNCHANGED <<vtVars, lrVars, pgVars, mdVars>>

\* time passes while an auto-rotate interval is live and not yet due
CarTimePasses ==
  /\ carIntervals # {}
  /\ carElapsed < AUTO_ROTATE_DELAY
  /\ carElapsed' = carElapsed + Quantum
  /\ carLast' = "time"
  /\ UNCHANGED <<carRect, carInit, carN, order, placed, transforms, autoRotateTimer, carIntervals, hidden,
                 carHover, totalImages, loadedImages, imgWaiting, carCut>>
  /\ UNCHANGED <<vtVars, lrVars, pgVars, mdVars>>

\* the live auto-rotate interval comes due and fires
CarTick ==
  /\ carIntervals # {}
  /\ carElapsed >= AUTO_ROTATE_DELAY
  /\ carElapsed' = 0
  /\ order' = tick(hidden, order)
  /\ placed' = IF hidden THEN placed ELSE order'
  /\ transforms' = IF hidden THEN transforms ELSE positionItems(order', carRect)
  /\ carLast' = "tick"
  /\ UNCHANGED <<carRect, carInit, carN, autoRotateTimer, carIntervals, hidden, carHover,
                 totalImages, loadedImages, imgWaiting, carCut>>
  /\ UNCHANGED <<vtVars, lrVars, pgVars, mdVars>>


----------------------------------------------------------------------------
\* light-rays.js: one LightRays instance

\* getAnchorAndDir(origin, w, h) (lines 14-34); outside = 0.2, and the sizes
\* tried are multiples of 10, so 0.2 * x = x \div 5 and 0.5 * x = x \div 2
getAnchorAndDir_inside(origin, w, h) ==
  CASE origin = "top-left" -> [anchor |-> <<0, -(h \div 5)>>, dir |-> <<0, 1>>]
    [] origin = "top-right" -> [anchor |-> <<w, -(h \div 5)>>, dir |-> <<0, 1>>]
    [] origin = "left" -> [anchor |-> <<w \div 5, h \div 2>>, dir |-> <<1, 0>>]
    [] origin = "right" -> [anchor |-> <<w - (w \div 5), h \div 2>>, dir |-> <<-1, 0>>]
    [] origin = "bottom-left" -> [anchor |-> <<0, h + (h \div 5)>>, dir |-> <<0, -1>>]
    [] origin = "bottom-center" -> [anchor |-> <<w \div 2, h + (h \div 5)>>, dir |-> <<0, -1>>]
    [] origin = "bottom-right" -> [anchor |-> <<w, h + (h \div 5)>>, dir |-> <<0, -1>>]
    [] OTHER -> [anchor |-> <<w \div 2, -(h \div 5)>>, dir |-> <<0, 1>>]

getAnchorAndDir(origin, w, h) ==
  CASE origin = "top-left" -> [anchor |-> <<0, -(h \div 5)>>, dir |-> <<0, 1>>]
    [] origin = "top-right" -> [anchor |-> <<w, -(h \div 5)>>, dir |-> <<0, 1>>]
    [] origin = "left" -> [anchor |-> <<-(w \div 5), h \div 2>>, dir |-> <<1, 0>>]
    [] origin = "right" -> [anchor |-> <<w + (w \div 5), h \div 2>>, dir |-> <<-1, 0>>]
    [] origin = "bottom-left" -> [anchor |-> <<0, h + (h \div 5)>>, dir |-> <<0, -1>>]
    [] origin = "bottom-center" -> [anchor |-> <<w \div 2, h + (h \div 5)>>, dir |-> <<0, -1>>]
    [] origin = "bottom-right" -> [anchor |-> <<w, h + (h \div 5)>>, dir |-> <<0, -1>>]
    [] OTHER -> [anchor |-> <<w \div 2, -(h \div 5)>>, dir |-> <<0, 1>>]

MouseMoveListener == <<"mousemove", 0>>
ResizeListener(c) == <<"resize", c>>

\* cleanup() (lines 370-390)
cleanup_keepCallbacks ==
  /\ animationId' = 0
  /\ lrFrames' = {f \in lrFrames : f[1] # animationId}
  /\ lrLive' = IF gl # 0 /\ extAvailable THEN lrLive \ {gl} ELSE lrLive
  /\ gl' = 0
  /\ program' = 0
  /\ uniforms' = FALSE
  /\ lrListeners' = lrListeners \ {cleanupFunctions[i] : i \in 1..Len(cleanupFunctions)}
  /\ lrRan' = lrRan \o cleanupFunctions
  /\ cleanupFunctions' = cleanupFunctions

cleanup_noCancel ==
  /\ animationId' = 0
  /\ lrFrames' = lrFrames
  /\ lrLive' = IF gl # 0 /\ extAvailable THEN lrLive \ {gl} ELSE lrLive
  /\ gl' = 0
  /\ program' = 0
  /\ uniforms' = FALSE
  /\ lrListeners' = lrListeners \ {cleanupFunctions[i] : i \in 1..Len(cleanupFunctions)}
  /\ lrRan' = lrRan \o cleanupFunctions
  /\ cleanupFunctions' = <<>>

cleanup ==
  /\ animationId' = 0
  /\ lrFrames' = {f \in lrFrames : f[1] # animationId}
  /\ lrLive' = IF gl # 0 /\ extAvailable THEN lrLive \ {gl} ELSE lrLive
  /\ gl' = 0
  /\ program' = 0
  /\ uniforms' = FALSE
  /\ lrListeners' = lrListeners \ {cleanupFunctions[i] : i \in 1..Len(cleanupFunctions)}
  /\ lrRan' = lrRan \o cleanupFunctions
  /\ cleanupFunctions' = <<>>

\* initializeWebGL() (lines 131-368); outcome is where it returns
initializeWebGL_noAbort(outcome) ==
  LET c == lrPeriod + 1
      h == NewHandle({f[1] : f \in lrFrames})
  IN  /\ lrPeriod' = c
      /\ IF outcome = "noContext"
           THEN UNCHANGED <<gl, lrLive, canvasSize, lrListeners, cleanupFunctions, lrPushed>>
           ELSE /\ gl' = c
                /\ lrLive' = lrLive \cup {c}
                /\ canvasSize' = lrRect
                /\ lrListeners' = lrListeners \cup {ResizeListener(c)}
                /\ cleanupFunctions' = Append(cleanupFunctions, ResizeListener(c))
                /\ lrPushed' = Append(lrPushed, ResizeListener(c))
      /\ IF outcome \in {"noContext", "shaderFail"}
           THEN UNCHANGED program
           ELSE program' = IF outcome = "linkFail" THEN 0 ELSE c
      /\ IF outcome # "noContext"
           THEN /\ uniforms' = TRUE
                /\ uResolution' = lrRect
                /\ uRayPos' = getAnchorAndDir(raysOrigin, lrRect, RectHeight(lrRect)).anchor
                /\ uRayDir' = getAnchorAndDir(raysOrigin, lrRect, RectHeight(lrRect)).dir
                /\ animationId' = h
                /\ lrFrames' = lrFrames \cup {<<h, c>>}
           ELSE UNCHANGED <<uniforms, uResolution, uRayPos, uRayDir, animationId, lrFrames>>
      /\ lrOutcome' = outcome

initializeWebGL(outcome) ==
  LET c == lrPeriod + 1
      h == NewHandle({f[1] : f \in lrFrames})
  IN  /\ lrPeriod' = c
      /\ IF outcome = "noContext"
           THEN UNCHANGED <<gl, lrLive, canvasSize, lrListeners, cleanupFunctions, lrPushed>>
           ELSE /\ gl' = c
                /\ lrLive' = lrLive \cup {c}
                /\ canvasSize' = lrRect
                /\ lrListeners' = lrListeners \cup {ResizeListener(c)}
                /\ cleanupFunctions' = Append(cleanupFunctions, ResizeListener(c))
                /\ lrPushed' = Append(lrPushed, ResizeListener(c))
      /\ IF outcome \in {"noContext", "shaderFail"}
           THEN UNCHANGED program
           ELSE program' = IF outcome = "linkFail" THEN 0 ELSE c
      /\ IF outcome = "ok"
           THEN /\ uniforms' = TRUE
                /\ uResolution' = lrRect
                /\ uRayPos' = getAnchorAndDir(raysOrigin, lrRect, RectHeight(lrRect)).anchor
                /\ uRayDir' = getAnchorAndDir(raysOrigin, lrRect, RectHeight(lrRect)).dir
                /\ animationId' = h
                /\ lrFrames' = lrFrames \cup {<<h, c>>}
           ELSE UNCHANGED <<uniforms, uResolution, uRayPos, uRayDir, animationId, lrFrames>>
      /\ lrOutcome' = outcome

\* the observer reports the container as intersecting
LrEnter ==
  /\ container
  /\ observed # "in"
  /\ lrPeriod < MaxPeriods
  /\ observed' = "in"
  /\ isVisible' = TRUE
  /\ \E outcome \in {"ok", "noContext", "shaderFail", "linkFail"} : initializeWebGL(outcome)
  /\ lrLast' = "enter"
  /\ UNCHANGED <<container, followMouse, extAvailable, mouse, lrRect, lrDrawn, raysOrigin,
                 lrRan>>
  /\ UNCHANGED <<vtVars, carVars, pgVars, mdVars>>

\* the observer reports the container as not intersecting
LrLeave ==
  /\ container
  /\ observed # "out"
  /\ observed' = "out"
  /\ isVisible' = FALSE
  /\ cleanup
  /\ lrLast' = "leave"
  /\ UNCHANGED <<container, followMouse, extAvailable, mouse, lrPeriod, lrRect, canvasSize,
                 uResolution, lrDrawn, raysOrigin, uRayPos, uRayDir, lrPushed, lrOutcome>>
  /\ UNCHANGED <<vtVars, carVars, pgVars, mdVars>>

\* a pending animation frame runs loop (lines 345-365)
LrFrame ==
  /\ \E f \in lrFrames :
       IF gl = 0 \/ ~isVisible
         THEN /\ lrFrames' = lrFrames \ {f}
              /\ lrLast' = "skip"
              /\ UNCHANGED <<animationId, lrDrawn>>
         ELSE LET h == NewHandle({g[1] : g \in lrFrames \ {f}})
              IN  /\ lrDrawn' = lrDrawn \cup {f[2]}
                  /\ lrLast' = "draw"
                  /\ animationId' = h
                  /\ lrFrames' = (lrFrames \ {f}) \cup {<<h, f[2]>>}
  /\ UNCHANGED <<container, followMouse, extAvailable, observed, isVisible, gl, program,
                 uniforms, cleanupFunctions, mouse, lrPeriod, lrListeners, lrLive, lrRect,
                 canvasSize, uResolution, raysOrigin, uRayPos, uRayDir, lrPushed, lrRan,
                 lrOutcome>>
  /\ UNCHANGED <<vtVars, carVars, pgVars, mdVars>>

\* window mousemove reaches handleMouseMove if it is registered
LrMouseMove ==
  /\ container
  /\ \E pt \in MousePoints :
       mouse' = IF MouseMoveListener \in lrListeners THEN pt ELSE mouse
  /\ UNCHANGED <<container, followMouse, extAvailable, observed, isVisible, gl, program,
                 uniforms, animationId, cleanupFunctions, lrPeriod, lrFrames, lrListeners,
                 lrLive, lrRect, canvasSize, uResolution, lrDrawn, raysOrigin, uRayPos,
                 uRayDir, lrPushed, lrRan, lrOutcome>>
  /\ lrLast' = "mousemove"
  /\ UNCHANGED <<vtVars, carVars, pgVars, mdVars>>

\* window resize: the container changes size, registered updateSize closures run
LrResize ==
  /\ container
  /\ \E sz \in RectSizes : lrRect' = sz
  /\ canvasSize' = IF gl # 0 /\ ResizeListener(gl) \in lrListeners THEN lrRect' ELSE canvasSize
  /\ UNCHANGED <<container, followMouse, extAvailable, observed, isVisible, gl, program,
                 uniforms, animationId, cleanupFunctions, mouse, lrPeriod, lrFrames,
                 lrListeners, lrLive, uResolution, lrDrawn, raysOrigin, uRayPos, uRayDir,
                 lrPushed, lrRan, lrOutcome>>
  /\ lrLast' = "resize"
  /\ UNCHANGED <<vtVars, carVars, pgVars, mdVars>>


----------------------------------------------------------------------------
\* theme-1.js: page initialisation and in-place language switch, together with
\* the start code of video-testimonials.js and light-rays.js

Components == {"carousel", "slider", "rays"}

\* generation of the markup a component's selectors find in the document
MarkupGen(comp) == IF comp \in pgInside THEN pgGen ELSE 0

\* the closure's wrapper, buttons and items are in the document
Attached(cl) == cl.gen = MarkupGen("carousel")

\* initCircularTestimonials(): a new closure over the markup now in the
\* document, with w images not yet complete (image gate, lines 575-599)
NewClosure(w) == [gen |-> MarkupGen("carousel"), timer |-> (w = 0), waiting |-> w]

\* a handler of the wrapper or its buttons runs in every closure bound to them
OnAttached(armed) ==
  pgClosures' = [i \in 1..Len(pgClosures) |->
                   IF Attached(pgClosures[i])
                     THEN [pgClosures[i] EXCEPT !.timer = armed]
                     ELSE pgClosures[i]]

\* the document is parsed: theme-1.js init(), video-testimonials.js init() and
\* the LightRays constructors run
PgLoad ==
  /\ ~pgLoaded
  /\ pgLoaded' = TRUE
  /\ \E w \in 0..MaxImages : pgClosures' = Append(pgClosures, NewClosure(w))
  /\ pgVtGen' = MarkupGen("slider")
  /\ pgLrGen' = MarkupGen("rays")
  /\ UNCHANGED <<pgGen, pgInside, pgFetch, pgReinit, pgSwitches, pgHidden, pgHover,
                 pgLastTick>>
  /\ UNCHANGED <<vtVars, carVars, lrVars, mdVars>>

\* a language option is clicked: loadLanguageFile() up to the fetch
PgLangSelect ==
  /\ pgLoaded
  /\ ~pgFetch
  /\ pgSwitches < MaxSwitches
  /\ pgSwitches' = pgSwitches + 1
  /\ pgFetch' = TRUE
  /\ UNCHANGED <<pgLoaded, pgGen, pgInside, pgReinit, pgClosures, pgHidden, pgHover,
                 pgLastTick, pgVtGen, pgLrGen>>
  /\ UNCHANGED <<vtVars, carVars, lrVars, mdVars>>

\* the fetch succeeds and the section is replaced (lines 58-93)
PgFetchReplaced ==
  /\ pgFetch
  /\ pgFetch' = FALSE
  /\ pgGen' = pgGen + 1
  /\ pgReinit' = pgReinit + 1
  /\ pgHover' = IF "carousel" \in pgInside THEN FALSE ELSE pgHover
  /\ UNCHANGED <<pgLoaded, pgInside, pgSwitches, pgClosures, pgHidden, pgLastTick,
                 pgVtGen, pgLrGen>>
  /\ UNCHANGED <<vtVars, carVars, lrVars, mdVars>>

\* the fetch succeeds but the loaded file holds no section (lines 80-85)
PgFetchNoSection ==
  /\ pgFetch
  /\ pgFetch' = FALSE
  /\ UNCHANGED <<pgLoaded, pgGen, pgInside, pgReinit, pgSwitches, pgClosures, pgHidden,
                 pgHover, pgLastTick, pgVtGen, pgLrGen>>
  /\ UNCHANGED <<vtVars, carVars, lrVars, mdVars>>

\* the fetch fails: window.location.href navigates to a fresh document
PgFetchFailed ==
  /\ pgFetch
  /\ pgFetch' = FALSE
  /\ pgLoaded' = FALSE
  /\ pgGen' = 0
  /\ pgReinit' = 0
  /\ pgClosures' = <<>>
  /\ pgHover' = FALSE
  /\ pgLastTick' = 0
  /\ pgVtGen' = -1
  /\ pgLrGen' = -1
  /\ UNCHANGED <<pgInside, pgSwitches, pgHidden>>
  /\ UNCHANGED <<vtVars, carVars, lrVars, mdVars>>

\* setTimeout(() => init(), 100) fires: theme-1.js init() runs again
PgReinit ==
  /\ pgReinit > 0
  /\ pgReinit' = pgReinit - 1
  /\ \E w \in 0..MaxImages : pgClosures' = Append(pgClosures, NewClosure(w))
  /\ UNCHANGED <<pgLoaded, pgGen, pgInside, pgFetch, pgSwitches, pgHidden, pgHover,
                 pgLastTick, pgVtGen, pgLrGen>>
  /\ UNCHANGED <<vtVars, carVars, lrVars, mdVars>>

\* click on the prev or next button in the document
PgButtonClick ==
  /\ pgLoaded /\ ~pgHidden
  /\ \E i \in 1..Len(pgClosures) : Attached(pgClosures[i])
  /\ OnAttached(TRUE)
  /\ UNCHANGED <<pgLoaded, pgGen, pgInside, pgFetch, pgReinit, pgSwitches, pgHidden,
                 pgHover, pgLastTick, pgVtGen, pgLrGen>>
  /\ UNCHANGED <<vtVars, carVars, lrVars, mdVars>>

PgMouseEnter ==
  /\ pgLoaded /\ ~pgHidden /\ ~pgHover
  /\ pgHover' = TRUE
  /\ OnAttached(FALSE)
  /\ UNCHANGED <<pgLoaded, pgGen, pgInside, pgFetch, pgReinit, pgSwitches, pgHidden,
                 pgLastTick, pgVtGen, pgLrGen>>
  /\ UNCHANGED <<vtVars, carVars, lrVars, mdVars>>

PgMouseLeave ==
  /\ pgLoaded /\ ~pgHidden /\ pgHover
  /\ pgHover' = FALSE
  /\ OnAttached(TRUE)
  /\ UNCHANGED <<pgLoaded, pgGen, pgInside, pgFetch, pgReinit, pgSwitches, pgHidden,
                 pgLastTick, pgVtGen, pgLrGen>>
  /\ UNCHANGED <<vtVars, carVars, lrVars, mdVars>>

\* visibilitychange reaches the document listener of every closure
PgVisibilityChange ==
  /\ pgHidden' = ~pgHidden
  /\ pgClosures' = [i \in 1..Len(pgClosures) |-> [pgClosures[i] EXCEPT !.timer = ~pgHidden']]
  /\ UNCHANGED <<pgLoaded, pgGen, pgInside, pgFetch, pgReinit, pgSwitches, pgHover,
                 pgLastTick, pgVtGen, pgLrGen>>
  /\ UNCHANGED <<vtVars, carVars, lrVars, mdVars>>

\* load or error of an image some closure waits for
PgImageSettled ==
  /\ \E i \in 1..Len(pgClosures) :
       /\ pgClosures[i].waiting > 0
       /\ pgClosures' = [pgClosures EXCEPT
                           ![i].waiting = @ - 1,
                           ![i].timer = IF pgClosures[i].waiting = 1 THEN TRUE ELSE @]
  /\ UNCHANGED <<pgLoaded, pgGen, pgInside, pgFetch, pgReinit, pgSwitches, pgHidden,
                 pgHover, pgLastTick, pgVtGen, pgLrGen>>
  /\ UNCHANGED <<vtVars, carVars, lrVars, mdVars>>

\* a live interval of some closure fires
PgTick ==
  /\ \E i \in 1..Len(pgClosures) :
       /\ pgClosures[i].timer
       /\ pgLastTick' = i
  /\ UNCHANGED <<pgLoaded, pgGen, pgInside, pgFetch, pgReinit, pgSwitches, pgClosures,
                 pgHidden, pgHover, pgVtGen, pgLrGen>>
  /\ UNCHANGED <<vtVars, carVars, lrVars, mdVars>>


----------------------------------------------------------------------------
\* theme-1.js: main video modal (initVideoPlayer)

\* elements that take part in focus handling
NoElement == <<"null", 0>>
Body == <<"body", 0>>
CloseButton == <<"close", 0>>
Trigger(t) == <<"trigger", t>>

Triggers == {Trigger(t) : t \in 1..MaxTriggers}
VideoUrls == {"", "intro.mp4", "lesson.mp4"}

\* openModal(videoUrl, trigger); played: modalVideo.play() was not rejected
openModal(videoUrl, trigger, played) ==
  IF videoUrl = ""
    THEN UNCHANGED <<mdLastFocused, mdSrc, mdActive, mdFocus, mdPlaying, mdOpener>>
    ELSE /\ mdLastFocused' = trigger
         /\ mdSrc' = videoUrl
         /\ mdActive' = TRUE
         /\ mdFocus' = CloseButton
         /\ mdPlaying' = played
         /\ mdOpener' = trigger

closeModal_noPause ==
  /\ mdActive' = FALSE
  /\ mdPlaying' = mdPlaying
  /\ mdFocus' = IF mdLastFocused # NoElement THEN mdLastFocused ELSE mdFocus
  /\ UNCHANGED <<mdLastFocused, mdSrc, mdOpener>>

closeModal ==
  /\ mdActive' = FALSE
  /\ mdPlaying' = FALSE
  /\ mdFocus' = IF mdLastFocused # NoElement THEN mdLastFocused ELSE mdFocus
  /\ UNCHANGED <<mdLastFocused, mdSrc, mdOpener>>

\* click on a trigger (lines 306-312)
MdTriggerClick ==
  /\ \E t \in Triggers, played \in BOOLEAN :
       /\ openModal(mdUrls[t], t, played)
       /\ mdLast' = IF mdUrls[t] = "" THEN "openNoUrl" ELSE "open"
  /\ UNCHANGED mdUrls
  /\ UNCHANGED <<vtVars, carVars, lrVars, pgVars>>

\* click on the close button (lines 315-318)
MdCloseClick ==
  /\ closeModal
  /\ mdLast' = "close"
  /\ UNCHANGED mdUrls
  /\ UNCHANGED <<vtVars, carVars, lrVars, pgVars>>

\* click on the overlay, which shows only while the modal is active (lines 321-327)
MdOverlayClick ==
  /\ mdActive
  /\ closeModal
  /\ mdLast' = "overlay"
  /\ UNCHANGED mdUrls
  /\ UNCHANGED <<vtVars, carVars, lrVars, pgVars>>

\* keydown with e.key === 'Escape' (lines 330-334)
MdKeyEscape ==
  /\ IF mdActive
       THEN closeModal
       ELSE UNCHANGED <<mdActive, mdPlaying, mdFocus, mdLastFocused, mdSrc, mdOpener>>
  /\ mdLast' = "escape"
  /\ UNCHANGED mdUrls
  /\ UNCHANGED <<vtVars, carVars, lrVars, pgVars>>

\* the user moves the focus with the keyboard or the pointer
MdFocusMove ==
  /\ \E el \in {Body, CloseButton} \cup Triggers : mdFocus' = el
  /\ mdLast' = "focus"
  /\ UNCHANGED <<mdUrls, mdActive, mdSrc, mdPlaying, mdLastFocused, mdOpener>>
  /\ UNCHANGED <<vtVars, carVars, lrVars, pgVars>>


----------------------------------------------------------------------------
\* Specifications: one per script

\* the slider before init() has run
VtStart(ready, n, rtl, w) ==
  /\ vtPc = "start"
  /\ initTimers = 0
  /\ domReady = ready
  /\ nCards = n
  /\ isRTL = rtl
  /\ innerWidth = w
  /\ totalSlides = 0
  /\ cards = <<>>
  /\ cardWidth = 0
  /\ dots = <<>>
  /\ current = 0
  /\ transform = 0
  /\ rehome = <<>>
  /\ autoplayTimer = 0
  /\ vtIntervals = {}
  /\ vtElapsed = 0
  /\ isDragging = FALSE
  /\ startX = 0
  /\ currentTranslate = 0
  /\ prevTranslate = 0
  /\ resizeTimer = FALSE
  /\ dragMoved = FALSE
  /\ dragDx = 0
  /\ nextRun = -1

\* the carousel before initCircularTestimonials() has run
CarStart(n, hid, imgs, w) ==
  /\ carInit = FALSE
  /\ carN = n
  /\ order = <<>>
  /\ placed = <<>>
  /\ carRect = w
  /\ transforms = <<>>
  /\ autoRotateTimer = 0
  /\ carIntervals = {}
  /\ hidden = hid
  /\ carHover = FALSE
  /\ totalImages = imgs
  /\ loadedImages = 0
  /\ imgWaiting = 0
  /\ carElapsed = 0
  /\ carCut = 0
  /\ carLast = "none"

\* the instance after its constructor: init() has created the observer and,
\* with followMouse, registered the mousemove listener and its cleanup callback
LrConstructed(cont, follow, ext, rect, origin) ==
  /\ container = cont
  /\ followMouse = follow
  /\ extAvailable = ext
  /\ observed = "none"
  /\ isVisible = FALSE
  /\ gl = 0
  /\ program = 0
  /\ uniforms = FALSE
  /\ animationId = 0
  /\ cleanupFunctions = IF cont /\ follow THEN <<MouseMoveListener>> ELSE <<>>
  /\ mouse = 5
  /\ lrPeriod = 0
  /\ lrFrames = {}
  /\ lrListeners = IF cont /\ follow THEN {MouseMoveListener} ELSE {}
  /\ lrLive = {}
  /\ lrRect = rect
  /\ canvasSize = 0
  /\ uResolution = 0
  /\ lrDrawn = {}
  /\ raysOrigin = origin
  /\ uRayPos = <<0, 0>>
  /\ uRayDir = <<0, 0>>
  /\ lrPushed = IF cont /\ follow THEN <<MouseMoveListener>> ELSE <<>>
  /\ lrRan = <<>>
  /\ lrOutcome = "none"
  /\ lrLast = "none"

\* the document before any script has run
PgStart(inside, hid) ==
  /\ pgLoaded = FALSE
  /\ pgGen = 0
  /\ pgInside = inside
  /\ pgFetch = FALSE
  /\ pgReinit = 0
  /\ pgSwitches = 0
  /\ pgClosures = <<>>
  /\ pgHidden = hid
  /\ pgHover = FALSE
  /\ pgLastTick = 0
  /\ pgVtGen = -1
  /\ pgLrGen = -1

\* the modal after initVideoPlayer() has wired it
MdWired(urls) ==
  /\ mdUrls = urls
  /\ mdActive = FALSE
  /\ mdSrc = ""
  /\ mdPlaying = FALSE
  /\ mdLastFocused = NoElement
  /\ mdFocus = Body
  /\ mdOpener = NoElement
  /\ mdLast = "none"

\* a script that is not the subject of a specification stays as constructed
VtIdle == VtStart(TRUE, 1, FALSE, 1200)
CarIdle == CarStart(1, FALSE, 0, 600)
LrIdle == LrConstructed(TRUE, TRUE, TRUE, 600, "top-center")
PgIdle == PgStart(Components, FALSE)
MdIdle == MdWired([t \in Triggers |-> "intro.mp4"])

InitVT ==
  /\ \E ready \in BOOLEAN, n \in 1..MaxN, rtl \in BOOLEAN, w \in WinWidths :
       VtStart(ready, n, rtl, w)
  /\ CarIdle
  /\ LrIdle
  /\ PgIdle
  /\ MdIdle

NextVT ==
  \/ VtInitPage
  \/ VtDomAppears
  \/ VtSetup
  \/ VtResize
  \/ VtResizeFire
  \/ VtNextClick
  \/ VtPrevClick
  \/ VtDotClick
  \/ VtDelayPasses
  \/ VtAutoplayTick
  \/ VtRehomeFire
  \/ VtMouseEnter
  \/ VtMouseLeave
  \/ VtStartDrag
  \/ VtDrag
  \/ VtEndDrag


SpecVT == InitVT /\ [][NextVT]_vars

\* the slider of a left-to-right page with its timers firing: a pending retry
\* timer of init() and the pending deferred setup are eventually run by the
\* event loop
InitVTLive ==
  /\ \E ready \in BOOLEAN, n \in 1..MaxN, w \in WinWidths : VtStart(ready, n, FALSE, w)
  /\ CarIdle
  /\ LrIdle
  /\ PgIdle
  /\ MdIdle

SpecVTLive ==
  /\ InitVTLive
  /\ [][NextVT]_vars
  /\ WF_vars(VtInitPage)
  /\ WF_vars(VtSetup)

InitCar ==
  /\ \E n \in 1..MaxItems, hid \in BOOLEAN, imgs \in 0..MaxImages, w \in CircleWidths :
       CarStart(n, hid, imgs, w)
  /\ VtIdle
  /\ LrIdle
  /\ PgIdle
  /\ MdIdle

NextCar ==
  \/ CarInit
  \/ CarPrevClick
  \/ CarNextClick
  \/ CarMouseEnter
  \/ CarMouseLeave
  \/ CarVisibilityChange
  \/ CarResize
  \/ CarImageSettled
  \/ CarTimePasses
  \/ CarTick


SpecCar == InitCar /\ [][NextCar]_vars

\* the carousel of MaxItems items with its interval timer running: time passes
\* while an interval is armed, and an interval that is due fires
InitCarLive ==
  /\ \E hid \in BOOLEAN, imgs \in 0..MaxImages, w \in CircleWidths :
       CarStart(MaxItems, hid, imgs, w)
  /\ VtIdle
  /\ LrIdle
  /\ PgIdle
  /\ MdIdle

SpecCarLive ==
  /\ InitCarLive
  /\ [][NextCar]_vars
  /\ WF_vars(CarTimePasses)
  /\ WF_vars(CarTick)

InitLR ==
  /\ \E cont \in BOOLEAN, follow \in BOOLEAN, ext \in BOOLEAN, rect \in RectSizes,
        origin \in OriginNames :
       LrConstructed(cont, follow, ext, rect, origin)
  /\ VtIdle
  /\ CarIdle
  /\ PgIdle
  /\ MdIdle

NextLR ==
  \/ LrEnter
  \/ LrLeave
  \/ LrFrame
  \/ LrMouseMove
  \/ LrResize

SpecLR == InitLR /\ [][NextLR]_vars

InitPage ==
  /\ \E inside \in SUBSET Components, hid \in BOOLEAN : PgStart(inside, hid)
  /\ VtIdle
  /\ CarIdle
  /\ LrIdle
  /\ MdIdle

NextPage ==
  \/ PgLoad
  \/ PgLangSelect
  \/ PgFetchReplaced
  \/ PgFetchNoSection
  \/ PgFetchFailed
  \/ PgReinit
  \/ PgButtonClick
  \/ PgMouseEnter
  \/ PgMouseLeave
  \/ PgVisibilityChange
  \/ PgImageSettled
  \/ PgTick

SpecPage == InitPage /\ [][NextPage]_vars

InitModal ==
  /\ \E urls \in [Triggers -> VideoUrls] : MdWired(urls)
  /\ VtIdle
  /\ CarIdle
  /\ LrIdle
  /\ PgIdle

NextModal ==
  \/ MdTriggerClick
  \/ MdCloseClick
  \/ MdOverlayClick
  \/ MdKeyEscape
  \/ MdFocusMove

SpecModal == InitModal /\ [][NextModal]_vars

----------------------------------------------------------------------------
\* Properties of the video-testimonial slider (SpecVT)

Settled == vtPc = "ready" /\ rehome = <<>> /\ ~isDragging

\* C1: whenever no re-homing timeout is pending and no drag is in progress,
\* the cursor lies in the original block: N <= current < 2N.
C1_SettledInRange ==
  Settled => (totalSlides <= current /\ current < 2 * totalSlides)

\* a settled state reached through the lower re-home, after a drag
C1_Witness ==
  /\ Settled
  /\ dragMoved
  /\ totalSlides = 2
  /\ current = 2 * totalSlides - 1
  /\ nextRun = -1

\* C2: a re-homing timeout that fires leaves the real visible index
\* (current - N) mod N as it was just before it fired.
C2_RehomeInvisible ==
  [][Len(rehome') < Len(rehome) => getRealIndex(current') = getRealIndex(current)]_vars

\* C3: after k settled next() calls from current = N the cursor is in [N, 2N)
\* and the offset last written equals (cardWidth + gap) * (k + N) modulo the
\* track period N * (cardWidth + gap).
C3_NextRunSettles ==
  (vtPc = "ready" /\ nextRun >= 0 /\ rehome = <<>>) =>
    LET step == cardWidth + Gap(innerWidth)
        period == totalSlides * step
    IN  /\ totalSlides <= current /\ current < 2 * totalSlides
        /\ Abs(transform) % period = (step * (nextRun + totalSlides)) % period

\* N next() calls made, the last one re-homed to N
C3_Witness ==
  /\ vtPc = "ready"
  /\ totalSlides = 2
  /\ nextRun = totalSlides
  /\ rehome = <<>>
  /\ current = totalSlides

\* C4: a release after at least one move with net displacement dx leaves the
\* cursor unchanged when |dx| < cardWidth/3 and moves it by exactly one step
\* when |dx| > cardWidth/3: +1 for dx < 0 and -1 for dx > 0 in left-to-right
\* layout, the reverse in right-to-left layout.
C4_DragThreshold ==
  [][(isDragging /\ ~isDragging' /\ dragMoved) =>
       LET dir == IF dragDx < 0 THEN 1 ELSE -1
       IN  /\ 3 * Abs(dragDx) < cardWidth => current' = current
           /\ 3 * Abs(dragDx) > cardWidth =>
                current' = current + (IF isRTL THEN -dir ELSE dir)]_vars

\* a released right-to-left gesture that went past the threshold
C4_Witness ==
  /\ vtPc = "ready"
  /\ ~isDragging
  /\ dragMoved
  /\ isRTL
  /\ ~resizeTimer
  /\ 3 * Abs(dragDx) > cardWidth

\* C6: the pagination holds N dots and exactly the dot (current - N) mod N
\* (non-negative residue) is active.
C6_PaginationMapping ==
  vtPc = "ready" =>
    /\ Len(dots) = totalSlides
    /\ \A i \in 1..Len(dots) :
         dots[i] <=> (i - 1 = (current - totalSlides) % totalSlides)

\* the cursor one below the original block lights the last dot
C6_Witness ==
  /\ vtPc = "ready"
  /\ totalSlides = 2
  /\ current = totalSlides - 1
  /\ dots[totalSlides]

\* C19: at every moment after initialisation, transient overshoot included,
\* the cursor satisfies 0 <= current < 3N.
C19_CursorOnTrack ==
  vtPc = "ready" => (0 <= current /\ current < 3 * totalSlides)

\* the three blocks of the track with the leading block in the given order
TrackBlocks(leading) ==
  /\ Len(cards) = 3 * totalSlides
  /\ \A i \in 1..totalSlides :
       /\ cards[i] = <<leading[i], TRUE>>
       /\ cards[totalSlides + i] = <<i - 1, FALSE>>
       /\ cards[2 * totalSlides + i] = <<i - 1, TRUE>>

\* C20 (as claimed): after cloneCards() the track is 3N cards: the clones of
\* the originals in reversed order, the N originals, the clones in original
\* order; and the cursor is initialised to N.
C20_ReversedFirst ==
  /\ [](vtPc = "ready" => TrackBlocks([i \in 1..totalSlides |-> totalSlides - i]))
  /\ [][(vtPc = "setup" /\ vtPc' = "ready") => current' = totalSlides]_vars

\* C20 (amended): after cloneCards() the track is 3N cards: the clones of the
\* originals in original order, the N originals, the clones in original order
\* again; and the cursor is initialised to N, the first original.
C20_TrackStructure ==
  /\ [](vtPc = "ready" => TrackBlocks([i \in 1..totalSlides |-> i - 1]))
  /\ [][(vtPc = "setup" /\ vtPc' = "ready") =>
          /\ current' = totalSlides
          /\ cards'[current' + 1] = <<0, FALSE>>]_vars

\* a track of two originals right after the setup
C20_Witness ==
  /\ vtPc = "ready"
  /\ totalSlides = 2
  /\ cards = <<<<0, TRUE>>, <<1, TRUE>>, <<0, FALSE>>, <<1, FALSE>>, <<0, TRUE>>, <<1, TRUE>>>>
  /\ current = 2
  /\ nextRun = 0

\* C22: goToSlide(i) sets current = i + N inside [N, 2N), makes dot i the one
\* active dot and schedules no loop-check; the cursor then stays at i + N: no
\* re-homing timeout is left pending that will move it elsewhere.
C22_JumpHolds ==
  [][VtDotClick =>
        /\ totalSlides <= current' /\ current' < 2 * totalSlides
        /\ \A i \in 1..Len(dots') : dots'[i] <=> (i - 1 = current' - totalSlides)
        /\ rehome' = rehome
        /\ \A k \in 1..Len(rehome') : rehome'[k] = current']_vars

\* C23: from the press that starts a drag until its release no autoplay
\* interval is live; the release leaves exactly one interval live with its
\* full delay to run, and a tick fires only outside a drag after a full delay.
C23_AutoplayAndDrag ==
  /\ [](isDragging => (vtIntervals = {} /\ autoplayTimer = 0))
  /\ [][/\ (isDragging /\ ~isDragging') =>
             /\ autoplayTimer' # 0
             /\ vtIntervals' = {autoplayTimer'}
             /\ vtElapsed' = 0
        /\ VtAutoplayTick => (~isDragging /\ vtElapsed = Delay)]_vars

\* a full delay after the release of a drag that moved, the tick now due
C23_Witness ==
  /\ vtPc = "ready"
  /\ ~isDragging
  /\ dragMoved
  /\ vtIntervals = {autoplayTimer}
  /\ vtElapsed = Delay

\* C26: init() keeps exactly one retry timer pending while the nodes are
\* missing and never more than one; once the nodes are there initialisation
\* completes, and the setup (cloning, pagination, autoplay start) runs once
\* and never again.
C26_DeferredInit ==
  /\ [](initTimers <= 1)
  /\ []((~domReady /\ vtPc # "start") => (vtPc = "retry" /\ initTimers = 1))
  /\ [](vtPc \in {"setup", "ready"} => initTimers = 0)
  /\ [][/\ vtPc = "ready" => vtPc' = "ready"
        /\ (vtPc # "ready" /\ vtPc' = "ready") =>
             /\ vtPc = "setup" /\ cards = <<>>
             /\ cards' = cloneCards(nCards)
             /\ Len(dots') = nCards
             /\ vtIntervals' = {autoplayTimer'}
        /\ cards # <<>> => cards' = cards]_vars
  /\ domReady ~> (vtPc = "ready")

\* the nodes have appeared while a retry timer is pending
C26_Witness ==
  /\ vtPc = "retry"
  /\ initTimers = 1
  /\ domReady

\* C24: a move or a release event received while no drag has been started
\* leaves the cursor, the track transform, the drag offsets and the autoplay
\* timer unchanged.
C24_GuardedDragHandlers ==
  [][(~isDragging /\ (VtDrag \/ VtEndDrag)) =>
        UNCHANGED <<current, transform, rehome, startX, currentTranslate, prevTranslate,
                    autoplayTimer, vtIntervals>>]_vars

\* at rest after a drag, with offsets left behind that an unguarded release
\* would read as a swipe
C24_Witness ==
  /\ vtPc = "ready"
  /\ ~isDragging
  /\ dragMoved
  /\ rehome = <<>>
  /\ 3 * Abs(currentTranslate - prevTranslate) > cardWidth
  /\ autoplayTimer \in vtIntervals

\* C27: a press followed by a release with no move in between leaves the
\* cursor unchanged and snaps the track back to the position of that cursor,
\* whatever happened before, also as the first interaction.
C27_TapLeavesCursor ==
  [][(isDragging /\ ~isDragging' /\ ~dragMoved) =>
        /\ current' = current
        /\ transform' = Value(current, cardWidth)]_vars

\* C28: between the press that starts a drag and its release the cursor is
\* not written and the transform is written only by the move handler.
C28_GestureOwnsTrack ==
  [][(isDragging /\ isDragging') =>
        /\ current' = current
        /\ transform' # transform =>
             \E x \in PointerXs : transform' = prevTranslate + (x - startX)]_vars

\* C29: at most one re-homing timeout is pending at any time.
C29_OneRehomePending == Len(rehome) <= 1

\* C30: at most one autoplay interval is live at any time, it is the one
\* autoplayTimer holds, and a step that arms a new interval leaves no other
\* interval behind.
C30_OneAutoplayInterval ==
  /\ [](Cardinality(vtIntervals) <= 1 /\ vtIntervals \subseteq {autoplayTimer})
  /\ [][autoplayTimer' # 0 => vtIntervals' = {autoplayTimer'}]_vars

\* the interval re-armed by the release of a drag that moved
C30_Witness ==
  /\ vtPc = "ready"
  /\ ~isDragging
  /\ dragMoved
  /\ dragDx # 0
  /\ autoplayTimer # 0
  /\ vtIntervals = {autoplayTimer}

\* -1, 0 or 1 as x is negative, zero or positive
Sign(x) == IF x < 0 THEN -1 ELSE IF x > 0 THEN 1 ELSE 0

\* C34: whenever a drag release commits a step, the settled translation
\* update() writes changes in the direction of the drag displacement dx of
\* the gesture (smaller for dx < 0, larger for dx > 0), in left-to-right and
\* in right-to-left layout.
C34_CommitFollowsFinger ==
  [][(isDragging /\ ~isDragging' /\ current' # current) =>
        /\ transform' = Value(current', cardWidth)
        /\ Sign(transform' - Value(current, cardWidth)) = Sign(dragDx)]_vars

\* the cards a viewport of PerView slots shows with the cursor at c: the
\* original index of the card in each slot, -1 for a slot past the track's end
Viewport(c) ==
  [k \in 1..PerView(innerWidth) |->
     IF c + k <= Len(cards) THEN cards[c + k][1] ELSE -1]

\* C31: after cloneCards() the card at every track position p in [0, 3N) is
\* the original of index p mod N or a clone of it, and the cursor values a
\* re-home relates (2N and N, N - 1 and 2N - 1) show the same cards in the
\* viewport.
C31_SeamlessLayout ==
  vtPc = "ready" =>
    /\ \A p \in 0..(3 * totalSlides - 1) : cards[p + 1][1] = p % totalSlides
    /\ Viewport(2 * totalSlides) = Viewport(totalSlides)
    /\ Viewport(totalSlides - 1) = Viewport(2 * totalSlides - 1)

----------------------------------------------------------------------------
\* Properties of the circular carousel (SpecCar)

\* smallest multiple of n that is at least MinVisible
FullPassLength(n) == n * ((MinVisible + n - 1) \div n)

\* the sequence s rotated by k places
Rotated(s, k) == [i \in 1..Len(s) |-> s[((i - 1 + k) % Len(s)) + 1]]

\* C7 (as claimed): for N <= 10 the order is padded by full passes over the
\* originals, so its length is the smallest multiple of N that is >= 10
\* (12 for N = 3, 10 for N = 5).
C7_FullPasses ==
  (carInit /\ carN <= MinVisible) => Len(order) = FullPassLength(carN)

\* C7 (amended): for N <= 10 the order is padded clone by clone, cycling over
\* the originals, until its length is exactly 10: the N originals come first
\* and position k holds a copy of original (k - 1) mod N (10 for N = 3 and
\* for N = 5).
C7_PadToFloor ==
  (carInit /\ carN <= MinVisible) =>
    /\ Len(order) = MinVisible
    /\ \E k \in 0..(Len(order) - 1) :
         LET o == Rotated(order, k)
         IN  \A i \in 1..Len(o) :
               /\ o[i][1] = (i - 1) % carN
               /\ o[i][2] = (i - 1) \div carN

\* three originals padded to ten
C7_Witness ==
  /\ carInit
  /\ carN = 3
  /\ Len(order) = 10
  /\ order[10] = <<0, 3>>
  /\ carLast = "init"

\* C8: after initialisation the length of the order never changes and the
\* order is a cyclic rotation of the initial order.
C8_PureRotation ==
  carInit =>
    /\ Len(order) = Len(PadItems(carN))
    /\ \E k \in 0..(Len(order) - 1) : order = Rotated(PadItems(carN), k)

\* a rotated order, three places from the initial one, after a resize
C8_Witness ==
  /\ carInit
  /\ carN = 3
  /\ order = Rotated(PadItems(carN), 3)
  /\ carLast = "resize"

\* C9: between a mouseenter on the wrapper and the next mouseleave no
\* timer tick rotates the order.
C9_HoverSuppression ==
  [][(carHover /\ carLast' = "tick") => order' = order]_vars

\* C10: a timer tick is rotate(next) when the document is visible and
\* changes nothing when document.hidden is true.
C10_HiddenTick ==
  [][(carIntervals # {} /\ carLast' = "tick") =>
       IF hidden
         THEN order' = order /\ placed' = placed
         ELSE order' = rotate("next", order) /\ placed' = order']_vars

\* a tick that came due while the document was hidden
C10_Witness ==
  /\ carInit
  /\ hidden
  /\ carLast = "tick"
  /\ order = PadItems(carN)

\* every image is counted once: settled and waiting images add up to all
ImagesCounted == carInit => loadedImages + imgWaiting = totalImages

\* C15 (as claimed): while an image of the ring has neither loaded nor
\* errored the items are not positioned and the auto-advance timer is not
\* started; with no image both happen at initialisation.
C15_ImageGate ==
  carInit =>
    /\ imgWaiting > 0 => placed = <<>> /\ carIntervals = {}
    /\ (carLast = "init" /\ totalImages = 0) => placed = order /\ carIntervals # {}

\* C15 (amended): initialisation always positions the items at once, and
\* starts the timer itself only when no image is still loading; while images
\* are loading only a button click, a mouseleave or the document becoming
\* visible arms the timer; the last image to load or error re-positions the
\* items and starts the timer, each image being counted once.
C15_GateDefersInitStart ==
  /\ [][/\ carLast' = "init" =>
             placed' = order' /\ (carIntervals' # {} <=> imgWaiting' = 0)
        /\ (carIntervals = {} /\ carIntervals' # {} /\ imgWaiting' > 0) =>
             carLast' \in {"prev", "next", "leave", "visibility"}
        /\ (carLast' = "image" /\ imgWaiting = 1) =>
             placed' = order /\ carIntervals' # {}]_vars
  /\ []ImagesCounted

\* initialisation with an image still loading: positioned, timer not started
C15_Witness ==
  /\ carInit
  /\ carLast = "init"
  /\ imgWaiting = 2
  /\ placed = order
  /\ carIntervals = {}

RECURSIVE RotateTimes(_, _, _)
RotateTimes(direction, ord, k) ==
  IF k = 0 THEN ord ELSE RotateTimes(direction, rotate(direction, ord), k - 1)

\* the rotation laws for one order of L items
RotateLaws(ord) ==
  LET L == Len(ord)
      nxt == rotate("next", ord)
      prv == rotate("prev", ord)
  IN  /\ Len(nxt) = L /\ Len(prv) = L
      /\ nxt[1] = ord[L]
      /\ prv[L] = ord[1]
      /\ \A i \in 0..(L - 1) :
           /\ nxt[((i + 1) % L) + 1] = ord[i + 1]
           /\ prv[((i - 1 + L) % L) + 1] = ord[i + 1]
      /\ rotate("prev", nxt) = ord
      /\ RotateTimes("next", ord, L) = ord

\* C21: rotate(next) moves the last element of the order to the front and
\* rotate(prev) the first to the end: the item at index i goes to (i + 1) mod L
\* under next and (i - 1) mod L under prev, over the same L slots; next then
\* prev restores the order and so do L nexts; the button handlers and the tick
\* apply exactly these steps.
C21_RotationSteps ==
  /\ [](carInit => RotateLaws(order))
  /\ [][/\ carLast' \in {"next", "tick"} /\ ~hidden =>
             order' = rotate("next", order) /\ placed' = order'
        /\ carLast' = "prev" =>
             order' = rotate("prev", order) /\ placed' = order']_vars

\* three originals padded to ten, a next step done: the last clone leads
C21_Witness ==
  /\ carInit
  /\ carN = 3
  /\ carLast = "next"
  /\ order[1] = <<0, 3>>
  /\ order[2] = <<0, 0>>
  /\ order = rotate("next", PadItems(carN))

\* centre of the container and anchor point (centre) of the item at order
\* index k - 1, in 1/Fixed px
RingCentre == <<(carRect * Fixed) \div 2, (CircleHeight(carRect) * Fixed) \div 2>>
Anchor(k) == <<transforms[k][1] + (ItemWidth * Fixed) \div 2,
               transforms[k][2] + (ItemHeight * Fixed) \div 2>>
\* squared distance, in squares of 1/100 px
Dist2(a, b) ==
  LET dx == (a[1] - b[1]) \div (Fixed \div 100)
      dy == (a[2] - b[2]) \div (Fixed \div 100)
  IN  dx * dx + dy * dy

\* a and b differ by at most pct per cent of b
Within(a, b, pct) == 100 * Abs(a - b) <= pct * b

\* C25: positionItems places the item at order index i at centre +
\* R*(cos a_i, sin a_i) minus half the item's size, a_i = i * 2*pi/L - pi/2 and
\* R = max(210, 0.55 * min(width, height)): the L steps close the circle, every
\* anchor point is at distance R from the centre (to the precision of the
\* fixed-point sine), and index 0 is at the top of the ring.
C25_RingPlacement ==
  transforms # <<>> =>
    LET L == Len(transforms)
        w == carRect
        h == CircleHeight(carRect)
        base == IF w <= h THEN w ELSE h
        R == Radius(carRect)
    IN  /\ L = Len(order)
        /\ R >= 210 * Fixed /\ 100 * R >= 55 * base * Fixed
        /\ R = 210 * Fixed \/ 100 * R = 55 * base * Fixed
        /\ \A k \in 1..L :
             /\ transforms[k] = ItemAt(k - 1, L, w)
             /\ Within(Dist2(Anchor(k), RingCentre), Dist2(<<R, 0>>, <<0, 0>>), 1)
             /\ Within(Dist2(Anchor(k), Anchor((k % L) + 1)),
                       Dist2(Anchor(1), Anchor(2)), 3)
        /\ ItemAt(L, L, w) = ItemAt(0, L, w)
        /\ Anchor(1) = <<RingCentre[1], RingCentre[2] - R>>
        /\ \A k \in 2..L : Anchor(k)[2] > Anchor(1)[2]

\* ten items re-positioned by a resize to the wide container, where the
\* radius is 0.55 of the height
C25_Witness ==
  /\ carLast = "resize"
  /\ carRect = 600
  /\ Len(transforms) = 10
  /\ Radius(carRect) = 220 * Fixed
  /\ transforms[1] = <<240 * Fixed, -65 * Fixed>>

\* the image gate has passed, the document is visible and the wrapper's last
\* mouse event, if any, was a mouseleave
AutoAdvanceDue ==
  /\ carInit
  /\ loadedImages >= totalImages
  /\ ~hidden
  /\ ~carHover

\* C35: in every state after the image gate has passed with the document
\* visible and the pointer not hovering the wrapper an auto-advance interval
\* is armed, and if that condition persists rotations keep occurring.
C35_AutoAdvanceNeverLost ==
  /\ [](AutoAdvanceDue => (autoRotateTimer # 0 /\ carIntervals = {autoRotateTimer}))
  /\ (<>[]AutoAdvanceDue) => []<><<order' # order>>_vars

\* the tab has just become visible again, pointer away: the interval is back
C35_Witness ==
  /\ AutoAdvanceDue
  /\ carLast = "visibility"
  /\ totalImages > 0
  /\ autoRotateTimer # 0
  /\ carIntervals = {autoRotateTimer}
  /\ order # PadItems(carN)

----------------------------------------------------------------------------
\* Properties of the ray renderer (SpecLR)

\* C5: over enter / leave / re-enter at most one animation-frame loop is
\* live, every resource of an earlier Active period (pending frame, context,
\* program, resize listener) is released before the next one begins, and a
\* frame callback only ever draws for the context of the current period.
C5_OneLoopPerPeriod ==
  /\ [](/\ Cardinality(lrFrames) <= 1
        /\ \A f \in lrFrames : f[1] = animationId /\ f[2] = gl /\ isVisible
        /\ \A l \in lrListeners : l[1] = "resize" => l[2] = gl
        /\ \A c \in lrLive : c = gl \/ ~extAvailable
        /\ program \in {0, gl}
        /\ ~isVisible => gl = 0 /\ animationId = 0)
  /\ [][lrDrawn' \subseteq lrDrawn \cup {gl}]_vars

\* the second Active period is drawing, after the first one drew and was left
C5_Witness ==
  /\ lrPeriod = 2
  /\ gl = 2
  /\ lrDrawn = {1, 2}
  /\ lrFrames = {<<animationId, 2>>}
  /\ lrListeners = {ResizeListener(2)}

\* the instance holds nothing of an Active period
Dormant ==
  /\ animationId = 0
  /\ gl = 0
  /\ program = 0
  /\ ~uniforms
  /\ cleanupFunctions = <<>>
  /\ lrFrames = {}

\* C12: after the observer reports the container as not intersecting, the
\* animation id, the context and the program are null, the uniform table and
\* the cleanup-callback list are empty, every callback registered so far has
\* run exactly once, and no frame is drawn until the next enter.
C12_ActiveToDormant ==
  /\ [](observed = "out" =>
          /\ Dormant
          /\ lrRan = lrPushed
          /\ \A i, j \in 1..Len(lrRan) : lrRan[i] = lrRan[j] => i = j)
  /\ [][observed = "out" => lrLast' # "draw"]_vars

\* a second leave, after two Active periods that both registered a resize listener
C12_Witness ==
  /\ observed = "out"
  /\ lrLast = "leave"
  /\ lrRan = <<MouseMoveListener, ResizeListener(1), ResizeListener(2)>>
  /\ lrDrawn = {1, 2}

\* C13: with no container nothing is ever set up; when the context cannot be
\* acquired or a shader or the program fails, no frame is scheduled and the
\* animation id stays null for that period, and the next leave returns the
\* instance to the Dormant state.
C13_FailureAborts ==
  /\ [](/\ ~container => Dormant /\ observed = "none" /\ lrListeners = {}
        /\ lrOutcome \in {"noContext", "shaderFail", "linkFail"} =>
             animationId = 0 /\ lrFrames = {} /\ ~uniforms)
  /\ [][(lrOutcome \in {"noContext", "shaderFail", "linkFail"} /\ observed' = "out") =>
          (Dormant /\ lrListeners \subseteq {MouseMoveListener} /\ lrRan = lrPushed)']_vars

\* a leave that follows a failed link, with the context of that period lost
C13_Witness ==
  /\ observed = "out"
  /\ lrLast = "leave"
  /\ lrOutcome = "linkFail"
  /\ lrPeriod = 2
  /\ lrRan = <<MouseMoveListener, ResizeListener(1), ResizeListener(2)>>
  /\ lrLive = {}

\* the distinct presets getAnchorAndDir yields at size (w, h)
Presets(w, h) == {getAnchorAndDir(o, w, h) : o \in OriginNames}

\* the placement written for the origin is 20% outside one edge of the
\* (w, h) viewport, with the unit direction pointing into it from that edge
OutsideOneEdge(pos, dir, w, h) ==
  \/ pos[2] = -(h \div 5) /\ dir = <<0, 1>>
  \/ pos[2] = h + (h \div 5) /\ dir = <<0, -1>>
  \/ pos[1] = -(w \div 5) /\ dir = <<1, 0>>
  \/ pos[1] = w + (w \div 5) /\ dir = <<-1, 0>>

\* the formulas both statements of C14 share
PresetFormulas ==
  LET w == uResolution
      h == RectHeight(uResolution)
  IN  /\ OutsideOneEdge(uRayPos, uRayDir, w, h)
      /\ raysOrigin = "left" => uRayPos = <<-(w \div 5), h \div 2>> /\ uRayDir = <<1, 0>>
      /\ raysOrigin = "bottom-right" =>
           uRayPos = <<w, h + (h \div 5)>> /\ uRayDir = <<0, -1>>
      /\ raysOrigin \notin NamedOrigins =>
           uRayPos = <<w \div 2, -(h \div 5)>> /\ uRayDir = <<0, 1>>

\* C14 (as claimed): every origin is placed 20% outside its edge with the
\* perpendicular unit direction, unrecognised names give top-center, and
\* there are nine presets.
C14_NinePresets ==
  uniforms =>
    /\ PresetFormulas
    /\ Cardinality(Presets(uResolution, RectHeight(uResolution))) = 9

\* C14 (amended): the same placements, with eight presets: seven named
\* origins and top-center, which is also what any other name yields.
C14_EightPresets ==
  uniforms =>
    /\ PresetFormulas
    /\ Cardinality(Presets(uResolution, RectHeight(uResolution))) = 8
    /\ Cardinality(NamedOrigins) = 7

\* the placement of an unrecognised origin name has been written
C14_Witness ==
  /\ uniforms
  /\ raysOrigin = "center"
  /\ uResolution = 300
  /\ uRayPos = <<150, -40>>
  /\ uRayDir = <<0, 1>>

\* the instance is in an Active period: visible, with a context and its
\* program set up and the uniform table filled
Active ==
  /\ isVisible
  /\ gl # 0
  /\ uniforms

\* C32: for an instance created with pointer-following enabled, whenever it
\* is Active its pointer-move listener is registered, so a pointer move then
\* sets the raw pointer position; in the first Active period of a container
\* that starts outside the viewport and in every one after a Dormant period.
C32_PointerFollowing ==
  /\ []((container /\ followMouse /\ Active) => MouseMoveListener \in lrListeners)
  /\ [][(container /\ followMouse /\ Active /\ LrMouseMove) =>
          \E pt \in MousePoints : LrMouseMove /\ mouse' = pt]_vars

\* C33: in every Active state the resolution uniform and the ray anchor
\* uniform are those of the current canvas size, also after a window resize
\* that changed the container's size during the Active period.
C33_PlacementFollowsCanvas ==
  Active =>
    /\ uResolution = canvasSize
    /\ uRayPos = getAnchorAndDir(raysOrigin, canvasSize, RectHeight(canvasSize)).anchor

----------------------------------------------------------------------------
\* Properties of page initialisation and the language switch (SpecPage)

\* the closures whose auto-advance interval is live
LiveIntervals == {i \in 1..Len(pgClosures) : pgClosures[i].timer}

\* C11: at any time at most one auto-advance interval of the carousel is
\* live on the page, whatever clicks, hover, visibility changes, image loads
\* and language switches have happened.
C11_SingleInterval == Cardinality(LiveIntervals) <= 1

\* C18: once a language switch has replaced the section and init() has run
\* again, the carousel, the video slider and the light rays whose markup lies
\* in the section are all bound to the markup now in the document.
C18_AllRebound ==
  (pgLoaded /\ pgGen > 0 /\ pgReinit = 0 /\ ~pgFetch) =>
    /\ "carousel" \in pgInside =>
         \E i \in 1..Len(pgClosures) : pgClosures[i].gen = pgGen
    /\ "slider" \in pgInside => pgVtGen = pgGen
    /\ "rays" \in pgInside => pgLrGen = pgGen

----------------------------------------------------------------------------
\* Properties of the main video modal (SpecModal)

\* C17: a trigger click with a video URL makes the modal active with that URL
\* as the video source; a close click, an overlay click or Escape while the
\* modal is active makes it inactive, pauses the video and returns the focus
\* to the trigger that opened it; Escape while inactive changes nothing; a
\* trigger click without a URL leaves the modal state, the video source and
\* the remembered focus element as they were.
C17_ModalStateMachine ==
  [][/\ mdLast' = "open" =>
          /\ mdActive'
          /\ mdSrc' = mdUrls[mdOpener']
          /\ mdSrc' # ""
     /\ (mdActive /\ mdLast' \in {"close", "overlay", "escape"}) =>
          /\ ~mdActive'
          /\ ~mdPlaying'
          /\ mdFocus' = mdOpener
     /\ (~mdActive /\ mdLast' = "escape") =>
          UNCHANGED <<mdActive, mdSrc, mdPlaying, mdLastFocused, mdFocus>>
     /\ mdLast' = "openNoUrl" =>
          UNCHANGED <<mdActive, mdSrc, mdLastFocused>>]_vars

\* a playing modal opened from the second trigger, the focus moved away from
\* the close button, was closed with Escape
C17_Witness ==
  /\ mdLast = "escape"
  /\ ~mdActive
  /\ ~mdPlaying
  /\ mdSrc = "lesson.mp4"
  /\ mdOpener = Trigger(2)
  /\ mdFocus = Trigger(2)

====
